---- MODULE Spec2Model ----
(***************************************************************************)
(* A model of music_usher.py: a Library is loaded from a source directory  *)
(* tree (one Track per media file, routed into Discography/Album by its    *)
(* tags) and exported to a target directory as Artist/Album/Track files.   *)
(*                                                                         *)
(* Strings are sequences of one-character strings, a path is a sequence of *)
(* components (the text between separators), so that os.path.splitext, the *)
(* media regular expression, the track-number substitution and str.format  *)
(* are computed character by character as the code computes them.  No      *)
(* component of the model contains the path separator.                     *)
(*                                                                         *)
(* The file system is POSIX: os.rename replaces an existing destination    *)
(* and renaming a file onto itself does nothing.                           *)
(***************************************************************************)
EXTENDS Naturals, Sequences, FiniteSets, TLC

VARIABLES
    DRY_RUN,        \* module global, set by main() from --simulate
    MOVE_EXPORT,    \* module global, set by main() from --move
    source,         \* Library.path: the directory that is loaded
    target,         \* the directory Library.export is given
    tree,           \* the files of the file system when the run starts
    fs,             \* the files: path -> content (a content is named by
                    \* the path at which it was when the run started)
    dirs,           \* the directories
    discographies,  \* Library.discographies: a dict, as its items in order
    visited,        \* paths Library.load has gone past
    pc,             \* where the run is
    di, ai, ti,     \* the loops of Library/Discography/Album.export
    runs,           \* calls of Library.export begun
    returned,       \* Track.export's return value, per track, this call
    fsAfterFirst    \* fs when the first Library.export returned

vars == <<DRY_RUN, MOVE_EXPORT, source, target, tree, fs, dirs, discographies,
          visited, pc, di, ai, ti, runs, returned, fsAfterFirst>>

-----------------------------------------------------------------------------
(* Bounds *)

MaxFiles == 2     \* files in a source tree of several files
MaxRuns == 2      \* calls of Library.export on one loaded Library

-----------------------------------------------------------------------------
(* Characters and strings *)

NL == "\n"

Digits == {"0", "1", "2", "3", "4", "5", "6", "7", "8", "9"}

\* re.IGNORECASE, for the letters of the pattern (mp3|ogg)
Lower(c) ==
    CASE c = "M" -> "m"
      [] c = "P" -> "p"
      [] c = "O" -> "o"
      [] c = "G" -> "g"
      [] OTHER -> c

LowerStr(s) == [i \in 1..Len(s) |-> Lower(s[i])]

Last(s, k) == SubSeq(s, Len(s) - k + 1, Len(s))

ButLast(s, k) == SubSeq(s, 1, Len(s) - k)

\* '.*\.(mp3|ogg)' matched up to the end of s; '.' matches no newline
EndsMedia(s) ==
    /\ Len(s) >= 4
    /\ s[Len(s) - 3] = "."
    /\ LowerStr(Last(s, 3)) \in {<<"m", "p", "3">>, <<"o", "g", "g">>}
    /\ \A i \in 1..(Len(s) - 4) : s[i] # NL

\* '$' matches at the end of the string or before a newline that ends it
MediaMatchBeforeNewline(name) ==
    /\ Len(name) > 0
    /\ name[Len(name)] = NL
    /\ EndsMedia(ButLast(name, 1))

MEDIA_FILES_REGEX(name) == EndsMedia(name) \/ MediaMatchBeforeNewline(name)

\* os.path.splitext on the last component of a path: <<trunk, extension>>;
\* the extension keeps its dot, and leading dots belong to the trunk
LastDot(name) ==
    IF \E i \in 1..Len(name) : name[i] = "."
    THEN CHOOSE i \in 1..Len(name) :
            name[i] = "." /\ \A j \in (i + 1)..Len(name) : name[j] # "."
    ELSE 0

splitext(name) ==
    LET d == LastDot(name) IN
    IF d > 0 /\ \E k \in 1..(d - 1) : name[k] # "."
    THEN <<SubSeq(name, 1, d - 1), SubSeq(name, d, Len(name))>>
    ELSE <<name, <<>> >>

RECURSIVE Join(_, _)
\* sep.join(list)
Join(sep, list) ==
    IF list = <<>> THEN <<>>
    ELSE IF Len(list) = 1 THEN list[1]
    ELSE list[1] \o sep \o Join(sep, Tail(list))

\* the length of the longest run of digits that ends s
RECURSIVE DigitRun(_)
DigitRun(s) ==
    IF s # <<>> /\ s[Len(s)] \in Digits THEN 1 + DigitRun(ButLast(s, 1)) ELSE 0

\* s with a match of '/\d+' that ends it removed
StripAtEnd(s) ==
    LET k == DigitRun(s) IN
    IF k > 0 /\ Len(s) > k /\ s[Len(s) - k] = "/" THEN ButLast(s, k + 1) ELSE s

\* re.sub(r'/\d+$', '', s)
StripTotal(s) ==
    IF s # <<>> /\ s[Len(s)] = NL /\ StripAtEnd(ButLast(s, 1)) # ButLast(s, 1)
    THEN StripAtEnd(ButLast(s, 1)) \o <<NL>>
    ELSE StripAtEnd(s)

-----------------------------------------------------------------------------
(* Python values: None, a str, a list of str *)

None == [kind |-> "none"]
Str(s) == [kind |-> "str", s |-> s]
List(l) == [kind |-> "list", l |-> l]

\* bool(v) of None or a str
Truthy(v) == v.kind = "str" /\ v.s # <<>>

\* a or b
Or(a, b) == IF Truthy(a) THEN a ELSE b

\* '{0}'.format(v)
Format(v) == IF v.kind = "none" THEN <<"N", "o", "n", "e">> ELSE v.s

TagNames == {"albumartist", "artist", "album", "title", "tracknumber"}

UnknownArtist ==
    <<"U", "n", "k", "n", "o", "w", "n", " ", "A", "r", "t", "i", "s", "t">>

UnknownAlbum ==
    <<"U", "n", "k", "n", "o", "w", "n", " ", "A", "l", "b", "u", "m">>

DefaultType == <<"m", "p", "3">>

Separator == <<" ", "&", " ">>

-----------------------------------------------------------------------------
(* Track *)

dirname(path) == ButLast(path, 1)

basename(path) == path[Len(path)]

\* Track.__init__: file is the file at path
Track(path, file) ==
    LET parts == splitext(basename(path)) IN
    [path |-> path,
     type |-> parts[2],
     metadata |-> IF file.header
                  THEN file.tags
                  ELSE [n \in TagNames |->
                           IF n = "title" THEN Str(parts[1]) ELSE None]]

get_type(track) == IF track.type # <<>> THEN track.type ELSE DefaultType

_get_metadata(track, name) ==
    LET metadatum == track.metadata[name] IN
    IF metadatum.kind \in {"str", "none"} THEN metadatum
    ELSE Str(Join(Separator, metadatum.l))

get_album(track) == Or(_get_metadata(track, "album"), Str(UnknownAlbum)).s

\* get_artist with the two tags looked up in the other order
get_artist_artist_first(track) ==
    Or(_get_metadata(track, "artist"),
       Or(_get_metadata(track, "albumartist"), Str(UnknownArtist))).s

get_artist(track) ==
    Or(_get_metadata(track, "albumartist"),
       Or(_get_metadata(track, "artist"), Str(UnknownArtist))).s

get_title(track) == _get_metadata(track, "title")

get_track_number(track) ==
    LET track_number == _get_metadata(track, "tracknumber") IN
    IF Truthy(track_number) THEN StripTotal(track_number.s) ELSE <<>>

\* the filename Track.export computes
Filename(track) ==
    LET track_no == get_track_number(track)
        track_title == get_title(track)
    IN  IF track_no # <<>>
        THEN track_no \o <<".", " ">> \o Format(track_title) \o <<".">>
                 \o get_type(track)
        ELSE Format(track_title) \o <<".">> \o get_type(track)

-----------------------------------------------------------------------------
(* dict: its items, in insertion order *)

HasKey(dict, key) == \E i \in 1..Len(dict) : dict[i].key = key

IndexOf(dict, key) == CHOOSE i \in 1..Len(dict) : dict[i].key = key

\* dict.get(key, None), for a key that may be missing
Get(dict, key) == IF HasKey(dict, key) THEN dict[IndexOf(dict, key)].value ELSE None

\* dict[key] = value
Put(dict, key, value) ==
    IF HasKey(dict, key)
    THEN [dict EXCEPT ![IndexOf(dict, key)].value = value]
    ELSE Append(dict, [key |-> key, value |-> value])

-----------------------------------------------------------------------------
(* Album, Discography, Library *)

\* Album.__init__
Album(artist, name) == [artist |-> artist, name |-> name, tracks |-> <<>>]

\* Discography.__init__
Discography(artist) == [artist |-> artist, albums |-> <<>>]

InSeq(x, seq) == \E i \in 1..Len(seq) : seq[i] = x

\* Album.add: tracks is a set, iterated in an order the program does not
\* choose but that stays the same while the set is not changed: the new
\* track takes any place, at, among the ones already there
add(album, track, at) ==
    IF InSeq(track, album.tracks) THEN album
    ELSE [album EXCEPT !.tracks =
             SubSeq(@, 1, at - 1) \o <<track>> \o SubSeq(@, at, Len(@))]

\* Discography.get_album(album, create=True): the albums afterwards
Discography_get_album(discography, album) ==
    IF ~HasKey(discography.albums, album)
    THEN [discography EXCEPT
             !.albums = Put(@, album, Album(discography.artist, album))]
    ELSE discography

\* Library.get_discography(artist, create=True): the discographies afterwards
get_discography(discs, artist) ==
    IF ~HasKey(discs, artist)
    THEN Put(discs, artist, Discography(artist))
    ELSE discs

\* Route with the artist given to Discography.get_album
Route_by_artist(discs, track, at) ==
    LET track_artist == get_artist(track)
        discs1 == get_discography(discs, track_artist)
        discography == Discography_get_album(Get(discs1, track_artist), track_artist)
        album == add(Get(discography.albums, track_artist), track, 1)
    IN  Put(discs1, track_artist,
            [discography EXCEPT !.albums = Put(@, track_artist, album)])

\* the body of the loop of Library.load, for one track
Route(discs, track, at) ==
    LET track_artist == get_artist(track)
        track_album == get_album(track)
        discs1 == get_discography(discs, track_artist)
        discography == Discography_get_album(Get(discs1, track_artist), track_album)
        album == add(Get(discography.albums, track_album), track, at)
    IN  Put(discs1, track_artist,
            [discography EXCEPT !.albums = Put(@, track_album, album)])

\* the places a track added to the album of its tags may take
Places(discs, track) ==
    LET discography == Get(discs, get_artist(track))
        album == IF discography = None THEN None
                 ELSE Get(discography.albums, get_album(track))
    IN  IF album = None THEN {1} ELSE 1..(Len(album.tracks) + 1)

-----------------------------------------------------------------------------
(* The file system *)

IsPrefix(p, q) == Len(p) <= Len(q) /\ SubSeq(q, 1, Len(p)) = p

Prefixes(p) == {SubSeq(p, 1, k) : k \in 1..Len(p)}

isdir(path) == path \in dirs

\* os.makedirs(path): path and the directories above it
makedirs(path) == dirs \cup Prefixes(path)

\* os.makedirs fails when a file is in the way
Blocked(path) == \E q \in Prefixes(path) : q \in DOMAIN fs

\* the files os.walk(source) lists that pass the filter of Library.load
MediaFiles ==
    {p \in DOMAIN fs :
        IsPrefix(source, dirname(p)) /\ MEDIA_FILES_REGEX(basename(p))}

FileAt(path) == CHOOSE f \in tree : f.path = path

-----------------------------------------------------------------------------
(* The source trees the model is run on *)

S == <<"s">>
D == <<"d">>
X == <<"X">>
Y == <<"Y">>
Z == <<"Z">>
B == <<"B">>
T == <<"T">>

Tags(albumartist, artist, album, title, tracknumber) ==
    [n \in TagNames |->
        CASE n = "albumartist" -> albumartist
          [] n = "artist" -> artist
          [] n = "album" -> album
          [] n = "title" -> title
          [] n = "tracknumber" -> tracknumber]

NoTags == Tags(None, None, None, None, None)

Dirs == {<<S>>, <<S, X, B>>}

Mp3Name == <<"a", ".", "m", "p", "3">>
ExportedName == <<"T", ".", ".", "m", "p", "3">>

\* several files: two names, in two directories, four kinds of tags
SomeNames == {Mp3Name, ExportedName}

SomeTags ==
    {Tags(None, List(<<X>>), List(<<B>>), List(<<T>>), None),
     Tags(None, List(<<X>>), List(<<B>>), List(<<T>>),
          List(<< <<"3", "/", "1", "2">> >>)),
     NoTags}

SomeFiles ==
    {[path |-> d \o <<n>>, header |-> TRUE, tags |-> t] :
        d \in Dirs, n \in SomeNames, t \in SomeTags}
    \cup {[path |-> d \o <<n>>, header |-> FALSE, tags |-> NoTags] :
        d \in Dirs, n \in SomeNames}

\* one file: any name, any tags
AnyNames ==
    SomeNames \cup
    {<<"a", ".", "M", "P", "3">>,
     <<"b", ".", "o", "g", "g">>,
     <<"c", ".", "t", "x", "t">>,
     <<"c", ".", "f", "l", "a", "c">>,
     <<"a", ".", "m", "p", "3", NL>>,
     <<"a", NL, "b", ".", "m", "p", "3">>,
     <<".", "m", "p", "3">>}

AnyTags ==
    {Tags(aa, ar, al, tt, tn) :
        aa \in {None, List(<<Z>>), List(<< <<>> >>)},
        ar \in {None, List(<<X>>), List(<<X, Y>>)},
        al \in {None, List(<<B>>)},
        tt \in {None, List(<<T>>)},
        tn \in {None, List(<< <<"7">> >>), List(<< <<"3", "/", "1", "2">> >>)}}

AnyFiles ==
    {[path |-> d \o <<n>>, header |-> TRUE, tags |-> t] :
        d \in Dirs, n \in AnyNames, t \in AnyTags}
    \cup {[path |-> d \o <<n>>, header |-> FALSE, tags |-> NoTags] :
        d \in Dirs, n \in AnyNames}

Paths(files) == {f.path : f \in files}

Trees ==
    {files \in SUBSET SomeFiles :
        /\ Cardinality(files) <= MaxFiles
        /\ Cardinality(Paths(files)) = Cardinality(files)}
    \cup {{f} : f \in AnyFiles}

\* the file system of a tree: every file holds its own content
InitialFiles(files) == [p \in Paths(files) |-> p]

InitialDirs(files) ==
    {<<S>>} \cup UNION {Prefixes(dirname(f.path)) : f \in files}

-----------------------------------------------------------------------------
(* main(): the flags, Library(args.source) *)

Init ==
    /\ DRY_RUN \in BOOLEAN
    /\ MOVE_EXPORT \in BOOLEAN
    /\ source = <<S>>
    /\ target \in {<<D>>, <<S>>}
    /\ tree \in Trees
    /\ fs = InitialFiles(tree)
    /\ dirs = InitialDirs(tree)
    /\ discographies = <<>>
    /\ visited = {}
    /\ pc = "load"
    /\ di = 1
    /\ ai = 1
    /\ ti = 1
    /\ runs = 0
    /\ returned = <<>>
    /\ fsAfterFirst = InitialFiles(tree)

-----------------------------------------------------------------------------
(* Library.load *)

\* os.walk is top-down: the files of a directory come before those of the
\* directories below it
WalkNext(path) ==
    /\ path \in MediaFiles \ visited
    /\ \A q \in MediaFiles \ visited :
          ~(dirname(q) # dirname(path) /\ IsPrefix(dirname(q), dirname(path)))

Library_load(path) ==
    /\ pc = "load"
    /\ WalkNext(path)
    /\ \E at \in Places(discographies, Track(path, FileAt(path))) :
          discographies' = Route(discographies, Track(path, FileAt(path)), at)
    /\ visited' = visited \cup {path}
    /\ UNCHANGED <<DRY_RUN, MOVE_EXPORT, source, target, tree, fs, dirs, pc,
                   di, ai, ti, runs, returned, fsAfterFirst>>

Library_load_return ==
    /\ pc = "load"
    /\ MediaFiles \ visited = {}
    /\ pc' = "loaded"
    /\ UNCHANGED <<DRY_RUN, MOVE_EXPORT, source, target, tree, fs, dirs,
                   discographies, visited, di, ai, ti, runs, returned,
                   fsAfterFirst>>

-----------------------------------------------------------------------------
(* Library.export, Discography.export, Album.export, Track.export *)

Empty == [p \in {} |-> p]

\* the objects the loops are at
TheDiscography == discographies[di].value
TheAlbum == TheDiscography.albums[ai].value
TheTrack == TheAlbum.tracks[ti]

\* the export_path of Discography.export, of Album.export, of Track.export
DiscographyPath == target \o <<TheDiscography.artist>>
AlbumPath == DiscographyPath \o <<TheAlbum.name>>
TrackPath == AlbumPath \o <<Filename(TheTrack)>>

\* EnsureDir without the test of DRY_RUN
EnsureDir_always(path, next) ==
    IF isdir(path)
    THEN pc' = next /\ dirs' = dirs
    ELSE IF Blocked(path)
    THEN pc' = "error" /\ dirs' = dirs
    ELSE pc' = next /\ dirs' = makedirs(path)

\* 'if not os.path.isdir(p): if not DRY_RUN: os.makedirs(p)', then next;
\* os.makedirs raises when a file is in the way
EnsureDir(path, next) ==
    IF isdir(path) \/ DRY_RUN
    THEN pc' = next /\ dirs' = dirs
    ELSE IF Blocked(path)
    THEN pc' = "error" /\ dirs' = dirs
    ELSE pc' = next /\ dirs' = makedirs(path)

Library_export ==
    /\ pc \in {"loaded", "done"}
    /\ runs < MaxRuns
    /\ runs' = runs + 1
    /\ returned' = Empty
    /\ EnsureDir(target, "library")
    /\ di' = 1
    /\ UNCHANGED <<DRY_RUN, MOVE_EXPORT, source, target, tree, fs,
                   discographies, visited, ai, ti, fsAfterFirst>>

Discography_export ==
    /\ pc = "library"
    /\ di <= Len(discographies)
    /\ EnsureDir(DiscographyPath, "discography")
    /\ ai' = 1
    /\ UNCHANGED <<DRY_RUN, MOVE_EXPORT, source, target, tree, fs,
                   discographies, visited, di, ti, runs, returned,
                   fsAfterFirst>>

Album_export ==
    /\ pc = "discography"
    /\ ai <= Len(TheDiscography.albums)
    /\ EnsureDir(AlbumPath, "album")
    /\ ti' = 1
    /\ UNCHANGED <<DRY_RUN, MOVE_EXPORT, source, target, tree, fs,
                   discographies, visited, di, ai, runs, returned,
                   fsAfterFirst>>

\* CopyRaises of a copy that does not write over a file
CopyRaises_exclusive(src, dst) ==
    src \notin DOMAIN fs \/ src = dst \/ ~isdir(dirname(dst)) \/ dst \in DOMAIN fs

\* shutil.copy(src, dst) and shutil.move(src, dst) raise when src is not
\* there or the directory of dst is not; shutil.copy raises SameFileError
CopyRaises(src, dst) ==
    src \notin DOMAIN fs \/ src = dst \/ ~isdir(dirname(dst))

MoveRaises(src, dst) == src \notin DOMAIN fs \/ ~isdir(dirname(dst))

\* shutil.copy(src, dst): dst is written, or written over
copy(src, dst) ==
    [p \in DOMAIN fs \cup {dst} |-> IF p = dst THEN fs[src] ELSE fs[p]]

\* move that leaves the source file where it is
move_keeps_source(src, dst) ==
    [p \in DOMAIN fs \cup {dst} |-> IF p = dst THEN fs[src] ELSE fs[p]]

\* shutil.move(src, dst): os.rename
move(src, dst) ==
    IF src = dst THEN fs
    ELSE [p \in (DOMAIN fs \cup {dst}) \ {src} |->
             IF p = dst THEN fs[src] ELSE fs[p]]

Raises(src, dst) ==
    /\ ~DRY_RUN
    /\ IF MOVE_EXPORT THEN MoveRaises(src, dst) ELSE CopyRaises(src, dst)

Written(src, dst) ==
    IF DRY_RUN THEN fs
    ELSE IF MOVE_EXPORT THEN move(src, dst)
    ELSE copy(src, dst)

Track_export ==
    /\ pc = "album"
    /\ ti <= Len(TheAlbum.tracks)
    /\ IF Raises(TheTrack.path, TrackPath)
       THEN /\ pc' = "error"
            /\ UNCHANGED <<fs, ti, returned>>
       ELSE /\ fs' = Written(TheTrack.path, TrackPath)
            /\ returned' =
                  [p \in DOMAIN returned \cup {TheTrack.path} |->
                      IF p = TheTrack.path THEN TrackPath ELSE returned[p]]
            /\ ti' = ti + 1
            /\ pc' = pc
    /\ UNCHANGED <<DRY_RUN, MOVE_EXPORT, source, target, tree, dirs,
                   discographies, visited, di, ai, runs, fsAfterFirst>>

Album_export_return ==
    /\ pc = "album"
    /\ ti > Len(TheAlbum.tracks)
    /\ pc' = "discography"
    /\ ai' = ai + 1
    /\ UNCHANGED <<DRY_RUN, MOVE_EXPORT, source, target, tree, fs, dirs,
                   discographies, visited, di, ti, runs, returned,
                   fsAfterFirst>>

Discography_export_return ==
    /\ pc = "discography"
    /\ ai > Len(TheDiscography.albums)
    /\ pc' = "library"
    /\ di' = di + 1
    /\ UNCHANGED <<DRY_RUN, MOVE_EXPORT, source, target, tree, fs, dirs,
                   discographies, visited, ai, ti, runs, returned,
                   fsAfterFirst>>

Library_export_return ==
    /\ pc = "library"
    /\ di > Len(discographies)
    /\ pc' = "done"
    /\ fsAfterFirst' = IF runs = 1 THEN fs ELSE fsAfterFirst
    /\ UNCHANGED <<DRY_RUN, MOVE_EXPORT, source, target, tree, fs, dirs,
                   discographies, visited, di, ai, ti, runs, returned>>

-----------------------------------------------------------------------------

Next ==
    \/ \E path \in DOMAIN fs : Library_load(path)
    \/ Library_load_return
    \/ Library_export
    \/ Discography_export
    \/ Album_export
    \/ Track_export
    \/ Album_export_return
    \/ Discography_export_return
    \/ Library_export_return

Spec == Init /\ [][Next]_vars

TypeOK ==
    /\ pc \in {"load", "loaded", "library", "discography", "album", "done",
               "error"}
    /\ runs \in 0..MaxRuns

-----------------------------------------------------------------------------
(* What the properties speak of *)

\* where the tracks are: discography i, its album j, the album's track k
Places3 ==
    {ijk \in (1..Len(discographies)) \X (1..(MaxFiles + 1)) \X (1..(MaxFiles + 1)) :
        /\ ijk[2] <= Len(discographies[ijk[1]].value.albums)
        /\ ijk[3] <= Len(discographies[ijk[1]].value.albums[ijk[2]].value.tracks)}

DiscographyAt(ijk) == discographies[ijk[1]]
AlbumAt(ijk) == DiscographyAt(ijk).value.albums[ijk[2]]
TrackAt(ijk) == AlbumAt(ijk).value.tracks[ijk[3]]

AllTracks == {TrackAt(ijk) : ijk \in Places3}

\* the directory Album.export gives the tracks of the album at ijk
AlbumDirAt(ijk) ==
    target \o <<DiscographyAt(ijk).value.artist>> \o <<AlbumAt(ijk).value.name>>

\* the path Track.export computes for the track at ijk
ExportPathAt(ijk) == AlbumDirAt(ijk) \o <<Filename(TrackAt(ijk))>>

SameAlbum(a, b) == a[1] = b[1] /\ a[2] = b[2]

Loaded == pc # "load"

\* a call of Library.export has returned, and the run is not in another
Exported == pc = "done"

CopyMode == ~DRY_RUN /\ ~MOVE_EXPORT
MoveMode == ~DRY_RUN /\ MOVE_EXPORT

\* the value of a tag as one string: a list joined, nothing when absent
Joined(track, name) ==
    LET v == track.metadata[name] IN
    CASE v.kind = "list" -> Join(<<" ", "&", " ">>, v.l)
      [] v.kind = "str" -> v.s
      [] OTHER -> <<>>

Present(track, name) == track.metadata[name].kind # "none"

\* the extension of the source file without its dot
Extension(track) ==
    LET ext == splitext(basename(track.path))[2] IN
    IF ext = <<>> THEN <<"m", "p", "3">> ELSE Tail(ext)

Stem(track) == splitext(basename(track.path))[1]

-----------------------------------------------------------------------------
(* C3 *)

\* C3: after Library.load, every track made from the source tree is in
\* exactly one Album of the Library, that Album is stored under the track's
\* get_album() in the Discography stored under the track's get_artist(), and
\* Album.artist = Discography.artist = the key in Library.discographies =
\* the artist of every track of the album.
C3_Routing ==
    Loaded =>
        /\ \A p \in visited :
              Cardinality({ijk \in Places3 : TrackAt(ijk).path = p}) = 1
        /\ \A ijk \in Places3 :
              /\ TrackAt(ijk).path \in visited
              /\ TrackAt(ijk) = Track(TrackAt(ijk).path, FileAt(TrackAt(ijk).path))
              /\ DiscographyAt(ijk).key = get_artist(TrackAt(ijk))
              /\ AlbumAt(ijk).key = get_album(TrackAt(ijk))
              /\ AlbumAt(ijk).value.name = AlbumAt(ijk).key
              /\ AlbumAt(ijk).value.artist = DiscographyAt(ijk).value.artist
              /\ DiscographyAt(ijk).value.artist = DiscographyAt(ijk).key
        /\ \A i, j \in 1..Len(discographies) :
              discographies[i].key = discographies[j].key => i = j
        /\ \A i \in 1..Len(discographies) :
              \A j, k \in 1..Len(discographies[i].value.albums) :
                 discographies[i].value.albums[j].key
                     = discographies[i].value.albums[k].key => j = k

\* two files have been loaded into one album
C3_Witness ==
    /\ Loaded
    /\ Cardinality(visited) = 2
    /\ \E ijk \in Places3 : ijk[3] = 2

-----------------------------------------------------------------------------
(* C1, C2, C9, C10: the name and the place of an exported file *)

\* name with ' (n)' put before its extension
Numbered(name, n) ==
    LET parts == splitext(name) IN
    parts[1] \o <<" ", "(", n, ")">> \o parts[2]

\* C1: when two files loaded into one Album compute the same export
\* filename, then after Library.export in copy mode the album directory
\* holds both: one at the name, the other at the name with ' (1)' before the
\* extension; no track's exported content is written over by another's.
C1_CollisionKeepsBoth ==
    (Exported /\ CopyMode /\ target = <<D>>) =>
        \A a, b \in Places3 :
            (a # b /\ SameAlbum(a, b) /\ Filename(TrackAt(a)) = Filename(TrackAt(b)))
            => LET first == ExportPathAt(a)
                   second == AlbumDirAt(a) \o <<Numbered(Filename(TrackAt(a)), "1")>>
               IN  /\ first \in DOMAIN fs
                   /\ second \in DOMAIN fs
                   /\ {fs[first], fs[second]} = {TrackAt(a).path, TrackAt(b).path}

\* C2: a track with artist A, album B, title T, track number tag 'N/M' and
\* source extension E is written by Library.export to D in copy mode at
\* exactly D/A/B/'N. T.E', one dot before E, and its source file is still at
\* its path afterwards.
C2_ExportPath ==
    (Exported /\ CopyMode /\ target = <<D>>) =>
        \A a \in Places3 :
            LET t == TrackAt(a)
                name == get_track_number(t) \o <<".", " ">> \o Joined(t, "title")
                            \o <<".">> \o Extension(t)
                path == target \o <<get_artist(t), get_album(t), name>>
            IN  (/\ Present(t, "title")
                 /\ Present(t, "tracknumber")
                 /\ get_track_number(t) # Joined(t, "tracknumber"))
                => /\ returned[t.path] = path
                   /\ path \in DOMAIN fs
                   /\ fs[path] = t.path
                   /\ t.path \in DOMAIN fs

\* C9: Album.export does not depend on the order of the tracks: every track
\* of an album is written to a path that no other track of the album is
\* written to.
C9_DistinctPaths ==
    \A a, b \in Places3 :
        (/\ a # b
         /\ SameAlbum(a, b)
         /\ TrackAt(a).path \in DOMAIN returned
         /\ TrackAt(b).path \in DOMAIN returned)
        => returned[TrackAt(a).path] # returned[TrackAt(b).path]

\* C10: the title in the filename Track.export computes is the 'title' tag
\* when the tag is there, and the source file's base name without its
\* extension when it is not, whether the file has no tag header or has tags
\* without a title.
C10_TitleOrStem ==
    \A a \in Places3 :
        LET t == TrackAt(a)
            no == get_track_number(t)
            title == IF FileAt(t.path).header /\ FileAt(t.path).tags["title"] # None
                     THEN Joined(t, "title")
                     ELSE Stem(t)
            name == (IF no # <<>> THEN no \o <<".", " ">> ELSE <<>>)
                        \o title \o <<".">> \o get_type(t)
        IN  t.path \in DOMAIN returned => basename(returned[t.path]) = name

-----------------------------------------------------------------------------
(* C4, C5, C6: the modes *)

TrackPaths == {t.path : t \in AllTracks}

\* C4: with DRY_RUN set, Library.load and Library.export leave the file
\* system as it was, no directory made and no file written, copied or
\* moved, with MOVE_EXPORT or without; nothing raises, the run goes on to
\* the end, and Track.export is called for every loaded track.
C4_Simulate ==
    DRY_RUN =>
        /\ fs = InitialFiles(tree)
        /\ dirs = InitialDirs(tree)
        /\ pc # "error"
        /\ (pc = "load" =>
               \/ \E path \in DOMAIN fs : WalkNext(path)
               \/ MediaFiles \ visited = {})
        /\ (pc \in {"loaded", "library", "discography", "album"} =>
               ENABLED (\/ Library_export
                        \/ Discography_export \/ Library_export_return
                        \/ Album_export \/ Discography_export_return
                        \/ Track_export \/ Album_export_return))
        /\ (Exported => DOMAIN returned = TrackPaths)

\* a simulated move of two tracks has returned
C4_Witness ==
    /\ DRY_RUN
    /\ MOVE_EXPORT
    /\ Exported
    /\ Cardinality(DOMAIN returned) = 2

\* C5, as claimed: after one Library.export in move mode none of the loaded
\* tracks' source files is at its path any longer.
C5_SourcesGone ==
    (MoveMode /\ Exported /\ runs = 1) =>
        \A t \in AllTracks : t.path \notin DOMAIN fs

\* no track is exported to a path at which a loaded track's source file is
Disjoint == \A a, b \in Places3 : ExportPathAt(a) # TrackAt(b).path

\* C5, amended: after one Library.export in move mode none of the loaded
\* tracks' source files is at its path any longer, when no loaded track is
\* exported to the source path of a loaded track.
C5_SourcesGoneWhenDisjoint ==
    (MoveMode /\ Exported /\ runs = 1 /\ Disjoint) =>
        \A t \in AllTracks : t.path \notin DOMAIN fs

\* two tracks have been moved out of the source tree
C5_Witness ==
    /\ MoveMode
    /\ Exported
    /\ runs = 1
    /\ Disjoint
    /\ Cardinality(TrackPaths) = 2
    /\ \A p \in TrackPaths : p \notin DOMAIN fs /\ returned[p] \in DOMAIN fs

\* the files under the source directory in f are those of the start
SourceUnchanged(f) ==
    /\ {p \in DOMAIN f : IsPrefix(source, p)}
           = {p \in Paths(tree) : IsPrefix(source, p)}
    /\ \A p \in Paths(tree) : IsPrefix(source, p) => f[p] = p

\* C6: in copy mode, a second Library.export on the same loaded Library,
\* the source tree unchanged and the target the same, does not raise and
\* leaves at the path of every track the content the first left there.
C6_SecondCopy ==
    (CopyMode /\ runs >= 2 /\ SourceUnchanged(fsAfterFirst)) =>
        /\ pc # "error"
        /\ Exported =>
              /\ DOMAIN returned = TrackPaths
              /\ \A p \in TrackPaths :
                    /\ returned[p] \in DOMAIN fs
                    /\ fs[returned[p]] = fsAfterFirst[returned[p]]

\* a second copy of two tracks has returned
C6_Witness ==
    /\ CopyMode
    /\ runs = 2
    /\ Exported
    /\ SourceUnchanged(fsAfterFirst)
    /\ Cardinality(TrackPaths) = 2

-----------------------------------------------------------------------------
(* C7, C8: what is loaded, and its artist *)

\* name ends in '.mp3' or '.ogg', whatever the case of the letters
HasMediaExtension(name) ==
    /\ Len(name) >= 4
    /\ LowerStr(Last(name, 4))
           \in {<<".", "m", "p", "3">>, <<".", "o", "g", "g">>}

\* C7: after Library.load the tracks of all the Albums are exactly the
\* files under the source directory whose name ends in '.mp3' or '.ogg'
\* compared without case: no other file is in an album, none of these is
\* left out.
C7_LoadedSet ==
    Loaded =>
        TrackPaths = {p \in Paths(tree) :
                         IsPrefix(source, dirname(p)) /\ HasMediaExtension(basename(p))}

XandY == <<"X", " ", "&", " ", "Y">>

\* C8, as claimed: get_artist() is the 'albumartist' tag if present,
\* otherwise the 'artist' tag if present, otherwise 'Unknown Artist'; a tag
\* of several values is its values joined with ' & '.
C8_ArtistIfPresent ==
    \A t \in AllTracks :
        get_artist(t) =
            IF Present(t, "albumartist") THEN Joined(t, "albumartist")
            ELSE IF Present(t, "artist") THEN Joined(t, "artist")
            ELSE UnknownArtist

\* C8, amended: get_artist() is the 'albumartist' tag if present and not
\* empty, otherwise the 'artist' tag if present and not empty, otherwise
\* 'Unknown Artist'; a tag of several values is its values joined with
\* ' & ' (['X', 'Y'] gives 'X & Y').
C8_ArtistIfNotEmpty ==
    \A t \in AllTracks :
        /\ get_artist(t) =
              IF Joined(t, "albumartist") # <<>> THEN Joined(t, "albumartist")
              ELSE IF Joined(t, "artist") # <<>> THEN Joined(t, "artist")
              ELSE UnknownArtist
        /\ (t.metadata["albumartist"] = None /\ t.metadata["artist"] = List(<<X, Y>>))
              => get_artist(t) = XandY

\* a track with an empty 'albumartist' and two values of 'artist' is loaded
C8_Witness ==
    \E t \in AllTracks :
        /\ t.metadata["albumartist"] = List(<< <<>> >>)
        /\ t.metadata["artist"] = List(<<X, Y>>)
        /\ get_artist(t) = XandY

====
